---- MODULE Spec2Model ----
(***************************************************************************)
(* Model of src/ble/adapter.c: the BLE notify callback that frames a       *)
(* characteristic value and writes it to a pipe, and the setter of the     *)
(* process-wide pipe descriptor.                                           *)
(*                                                                         *)
(* Platform facts the model fixes (the Kindle target is 32-bit little      *)
(* endian ARM): sizeof(bleConnHandle) = 4, and memcpy of a uint16_t or of  *)
(* the handle lays the low byte first.                                     *)
(***************************************************************************)
EXTENDS Integers, Sequences, FiniteSets, TLC

VARIABLES
    g_pipe_fd,      \* static int g_pipe_fd
    pc,             \* per thread: where its on_notify_cb invocation stands
    conn_handle,    \* per thread: argument conn_handle
    value,          \* per thread: argument gatt_characteristics.blobValue
    fd_checked,     \* per thread: the value of g_pipe_fd loaded at line 28
    buf,            \* per thread: uint8_t buf[512], the part written so far
    chan,           \* per descriptor: the bytes the channel has accepted
    crashed,        \* the process was killed (stack smashed by line 64)
    ncalls,         \* history: how many times on_notify_cb was entered
    inv,            \* per thread: the number of its invocation (1, 2, ..)
    wlog,           \* history: the write(2) calls, in order
    lastSet,        \* history: <<fd>> of the last adapter_set_pipe(fd), or <<>>
    sameSet,        \* history: that call passed the valid descriptor already stored
    raced           \* per thread: adapter_set_pipe ran since it entered on_notify_cb

vars == <<g_pipe_fd, pc, conn_handle, value, fd_checked, buf, chan, crashed,
          ncalls, inv, wlog, lastSet, sameSet, raced>>

\* What the program itself holds; the rest of vars is history.
progVars == <<g_pipe_fd, pc, conn_handle, value, fd_checked, buf, chan, crashed>>

-----------------------------------------------------------------------------
\* Program constants

EVENT_NOTIFY == 1
EVENT_CONNECT == 2
EVENT_DISCONNECT == 3

\* sizeof(event_header_t): packed, uint8_t + uint16_t
HeaderSize == 3

\* sizeof(bleConnHandle) on the target
HandleSize == 4

\* sizeof(buf)
BufSize == 512

\* uint16_t holds values modulo 2^16
U16 == 65536

\* the initial value of g_pipe_fd, the "unset" channel
UnsetFd == -1

NULL == 0

-----------------------------------------------------------------------------
\* Bounds and input sets

\* on_notify_cb invocations in one behaviour
MaxCalls == 2

Threads == {"t1", "t2"}

ValidFds == {3, 4}

Fds == {UnsetFd} \cup ValidFds

Handles == {7, 16909060}

TinyValue == [data |-> 170, size |-> 3]

\* blobValue: data is NULL or the address of a buffer (a non-zero address,
\* which also fixes the buffer's contents, see Heap), size is a uint16_t.
Values ==
    {[data |-> NULL, size |-> 3]}
    \cup {[data |-> 170, size |-> n] : n \in {0, 3, 503, 504}}
    \cup {[data |-> 1, size |-> n] : n \in {65529, 65530, 65535}}

\* the (conn_handle, blobValue) pairs the callback is invoked with
Inputs ==
    {<<7, v>> : v \in Values} \cup {<<h, TinyValue>> : h \in Handles}

\* the pairs concurrent callbacks are invoked with: two frames that differ,
\* and one that overruns
RaceInputs ==
    {<<h, TinyValue>> : h \in Handles} \cup {<<7, [data |-> 1, size |-> 65530]>>}

\* byte counts a channel may accept when it takes less than the whole request
ShortWrites == {5}

-----------------------------------------------------------------------------
\* Memory and byte layout

\* byte i (from 0) of the buffer blobValue.data points to
Heap(ptr, i) == (ptr + 17 * i) % 256

\* the n bytes memcpy reads from blobValue.data
DataBytes(v, n) == [i \in 1..n |-> Heap(v.data, i - 1)]

\* the two bytes of a uint16_t in memory, low byte first
LE16(x) == <<x % 256, (x \div 256) % 256>>

\* the bytes of a bleConnHandle in memory, low byte first
HandleBytes(h) == [i \in 1..HandleSize |-> (h \div (256 ^ (i - 1))) % 256]

-----------------------------------------------------------------------------
\* on_notify_cb, lines 27-69

\* uint16_t data_len = gatt_characteristics.blobValue.size;
data_len(v) == v.size % U16

\* uint16_t payload_len = sizeof(bleConnHandle) + 2 + data_len;
payload_len(v) == (HandleSize + 2 + data_len(v)) % U16

\* the size check with >= for >: a frame of exactly sizeof(buf) is dropped
TooLargeOffByOne(v) == HeaderSize + payload_len(v) >= BufSize

\* if (sizeof(event_header_t) + payload_len > sizeof(buf)) return;
TooLarge(v) == HeaderSize + payload_len(v) > BufSize

\* header.type = EVENT_NOTIFY; header.len = payload_len; memcpy(ptr, &header, ..)
HeaderBytes(v) == <<EVENT_NOTIFY>> \o LE16(payload_len(v))

\* buf after the memcpy of the header, the handle and data_len (lines 54-62)
FrameHead(h, v) == HeaderBytes(v) \o HandleBytes(h) \o LE16(data_len(v))

\* memcpy(ptr, data, data_len) at line 64 runs past the end of buf
Overruns(h, v) == Len(FrameHead(h, v)) + data_len(v) > BufSize

\* where an invocation stands after lines 28-62
EntryPc(fd, h, v) ==
    IF fd < 0 THEN "ret28"
    ELSE IF v.data = NULL THEN "ret31"
    ELSE IF TooLarge(v) THEN "ret48"
    ELSE IF Overruns(h, v) THEN "at64"
    ELSE "at68"

\* ptr - buf after lines 51-65
PtrOffset(h, v) == Len(FrameHead(h, v)) + data_len(v)

\* the contents of buf after lines 28-65 (after lines 28-62 when line 64
\* overruns)
EntryBuf(fd, h, v) ==
    IF EntryPc(fd, h, v) = "at64" THEN FrameHead(h, v)
    ELSE IF EntryPc(fd, h, v) = "at68"
         THEN FrameHead(h, v) \o DataBytes(v, data_len(v))
    ELSE <<>>

Returned == {"idle", "ret28", "ret31", "ret48", "ret69"}

\* The callback runs from its entry to the point where it next touches shared
\* state (the write at line 68) or leaves defined behaviour (line 64).
NotifyEnter(t, h, v) ==
    /\ ~crashed
    /\ pc[t] \in Returned
    /\ ncalls < MaxCalls
    /\ pc' = [pc EXCEPT ![t] = EntryPc(g_pipe_fd, h, v)]
    /\ conn_handle' = [conn_handle EXCEPT ![t] = h]
    /\ value' = [value EXCEPT ![t] = v]
    /\ fd_checked' = [fd_checked EXCEPT ![t] = g_pipe_fd]
    /\ buf' = [buf EXCEPT ![t] = EntryBuf(g_pipe_fd, h, v)]
    /\ ncalls' = ncalls + 1
    /\ inv' = [inv EXCEPT ![t] = ncalls + 1]
    /\ raced' = [raced EXCEPT ![t] = FALSE]
    /\ UNCHANGED <<g_pipe_fd, chan, crashed, wlog, lastSet, sameSet>>

\* Line 64 with data_len larger than the room left in buf: the copy runs over
\* the stack frame.  Either the copy faults, or it completes: buf is filled to
\* its end and the rest of the data lies over the stack beyond it (the frame's
\* return path is destroyed either way).
NotifyOverrun(t) ==
    /\ ~crashed
    /\ pc[t] = "at64"
    /\ \/ /\ crashed' = TRUE
          /\ UNCHANGED <<pc, buf>>
       \/ /\ pc' = [pc EXCEPT ![t] = "at68"]
          /\ buf' = [buf EXCEPT ![t] =
                        buf[t] \o DataBytes(value[t], BufSize - Len(buf[t]))]
          /\ UNCHANGED crashed
    /\ UNCHANGED <<g_pipe_fd, conn_handle, value, fd_checked, chan,
                   ncalls, inv, wlog, lastSet, sameSet, raced>>

\* The descriptor line 68 passes to write.  g_pipe_fd is a plain int read at
\* line 28 and again at line 68 with no synchronisation: the build either
\* loads it again or reuses the value it loaded at line 28.
WriteFds(t) == {g_pipe_fd, fd_checked[t]}

\* what write(fd, buf, n) may return: n, a short count, or -1
WriteResults(fd, n) ==
    IF fd < 0 THEN {-1}
    ELSE {-1, n} \cup {k \in ShortWrites : k < n}

\* The k bytes write reads starting at buf.  Bytes beyond the end of the
\* array are not buf's: they are stack contents, stood for by one element
\* -j for a run of j such bytes (no byte value is negative).
BytesFrom(b, k) ==
    IF k <= BufSize THEN SubSeq(b, 1, k)
    ELSE SubSeq(b, 1, BufSize) \o <<BufSize - k>>

\* a loop that calls write again until the whole frame is taken
AfterWriteRetry(ret, n) == IF ret < n THEN "at68" ELSE "ret69"

\* the return value of write is discarded and the function returns
AfterWrite(ret, n) == "ret69"

\* write(g_pipe_fd, buf, ptr - buf);
NotifyWrite(t) ==
    /\ ~crashed
    /\ pc[t] = "at68"
    /\ LET n == PtrOffset(conn_handle[t], value[t]) IN
       /\ \E fd \in WriteFds(t) : \E ret \in WriteResults(fd, n) :
            /\ chan' = IF fd \in ValidFds /\ ret > 0
                       THEN [chan EXCEPT ![fd] = @ \o BytesFrom(buf[t], ret)]
                       ELSE chan
            /\ wlog' = Append(wlog, [inv |-> inv[t], fd |-> fd, n |-> n,
                                     ret |-> ret,
                                     conn_handle |-> conn_handle[t],
                                     value |-> value[t]])
            /\ pc' = [pc EXCEPT ![t] = AfterWrite(ret, n)]
       /\ raced' = [raced EXCEPT ![t] = FALSE]
       \* returning through a frame that line 64 overwrote kills the process
       /\ crashed' = (n > BufSize)
    /\ UNCHANGED <<g_pipe_fd, conn_handle, value, fd_checked, buf,
                   ncalls, inv, lastSet, sameSet>>

-----------------------------------------------------------------------------
\* adapter_set_pipe, lines 76-78

\* a setter that keeps a descriptor once one is stored
adapter_set_pipe_once(fd) == IF g_pipe_fd < 0 THEN fd ELSE g_pipe_fd

\* a setter that takes a repeated descriptor as a request to disable
adapter_set_pipe_toggle(fd) == IF fd = g_pipe_fd THEN UnsetFd ELSE fd

\* g_pipe_fd = fd;
adapter_set_pipe(fd) == fd

InFlight == {"at64", "at68"}

AdapterSetPipe(fd) ==
    /\ ~crashed
    /\ g_pipe_fd' = adapter_set_pipe(fd)
    /\ lastSet' = <<fd>>
    /\ sameSet' = (fd >= 0 /\ fd = g_pipe_fd)
    /\ raced' = [t \in Threads |-> raced[t] \/ pc[t] \in InFlight]
    /\ UNCHANGED <<pc, conn_handle, value, fd_checked, buf, chan, crashed,
                   ncalls, inv, wlog>>

-----------------------------------------------------------------------------

Init ==
    /\ g_pipe_fd = UnsetFd
    /\ pc = [t \in Threads |-> "idle"]
    /\ conn_handle = [t \in Threads |-> 0]
    /\ value = [t \in Threads |-> [data |-> NULL, size |-> 0]]
    /\ fd_checked = [t \in Threads |-> UnsetFd]
    /\ buf = [t \in Threads |-> <<>>]
    /\ chan = [fd \in ValidFds |-> <<>>]
    /\ crashed = FALSE
    /\ ncalls = 0
    /\ inv = [t \in Threads |-> 0]
    /\ wlog = <<>>
    /\ lastSet = <<>>
    /\ sameSet = FALSE
    /\ raced = [t \in Threads |-> FALSE]

\* Callbacks fire concurrently from the threads of the BLE stack while
\* adapter_set_pipe may be called at any time.
Next ==
    \/ \E fd \in Fds : AdapterSetPipe(fd)
    \/ \E t \in Threads : \E in \in RaceInputs : NotifyEnter(t, in[1], in[2])
    \/ \E t \in Threads : NotifyOverrun(t)
    \/ \E t \in Threads : NotifyWrite(t)

Spec == Init /\ [][Next]_vars

\* A single callback thread, every input: the framing of one event after
\* another (adapter_set_pipe may still be called at any time).
CallbackThread == "t1"

NextCodec ==
    \/ \E fd \in Fds : AdapterSetPipe(fd)
    \/ \E in \in Inputs : NotifyEnter(CallbackThread, in[1], in[2])
    \/ NotifyOverrun(CallbackThread)
    \/ NotifyWrite(CallbackThread)

SpecCodec == Init /\ [][NextCodec]_vars

-----------------------------------------------------------------------------
\* The wire format as a reader of the channel sees it, and what the claims
\* speak of

\* the total the frame of v needs: header, handle, data length, data
Total(v) == HeaderSize + HandleSize + 2 + v.size

\* the 2-byte field at s[i], s[i+1], low byte first
U16At(s, i) == s[i] + 256 * s[i + 1]

\* the handle whose raw bytes, low byte first, are b
RECURSIVE HandleOf(_)
HandleOf(b) == IF b = <<>> THEN 0 ELSE b[1] + 256 * HandleOf(Tail(b))

Framing == {"at68", "ret69"}

Invoked(t) == pc[t] # "idle"

\* the write calls of t's invocation
WritesOf(t) == SelectSeq(wlog, LAMBDA w : w.inv = inv[t])

\* the bytes line 68 hands to write
WrittenRun(t) == BytesFrom(buf[t], PtrOffset(conn_handle[t], value[t]))

\* s starts with a whole frame of the wire table
FrameAtHead(s) ==
    /\ Len(s) >= HeaderSize + HandleSize + 2
    /\ \A i \in 1..(HeaderSize + HandleSize + 2) : s[i] \in 0..255
    /\ s[1] = EVENT_NOTIFY
    /\ U16At(s, 2) >= HandleSize + 2
    /\ Len(s) >= HeaderSize + U16At(s, 2)
    /\ U16At(s, HeaderSize + HandleSize + 1) = U16At(s, 2) - HandleSize - 2

Undecodable == [conn_handle |-> -1, data |-> <<>>]

\* The events a reader gets from s, cutting frames by the length field
\* alone; it ends with Undecodable where the bytes are no frame.
RECURSIVE DecodeStream(_)
DecodeStream(s) ==
    IF s = <<>> THEN <<>>
    ELSE IF ~FrameAtHead(s) THEN <<Undecodable>>
    ELSE LET end == HeaderSize + U16At(s, 2) IN
         <<[conn_handle |-> HandleOf(SubSeq(s, HeaderSize + 1, HeaderSize + HandleSize)),
            data |-> SubSeq(s, HeaderSize + HandleSize + 3, end)]>>
         \o DecodeStream(SubSeq(s, end + 1, Len(s)))

\* the event of an invocation, as the callback received it
Event(h, v) == [conn_handle |-> h, data |-> DataBytes(v, v.size)]

\* the events whose write put bytes on fd, in the order of the writes
Delivered(fd) ==
    LET ws == SelectSeq(wlog, LAMBDA w : w.fd = fd /\ w.ret > 0) IN
    [k \in 1..Len(ws) |-> Event(ws[k].conn_handle, ws[k].value)]

-----------------------------------------------------------------------------
\* C1: an event whose total (3 + handle + 2 + payload length) exceeds 512,
\* for any payload length up to 65535, is dropped whole: the invocation
\* makes no write and copies no byte of the payload into buf.
C1_OversizeDropped ==
    \A t \in Threads :
        (Invoked(t) /\ Total(value[t]) > BufSize)
        => /\ Len(WritesOf(t)) = 0
           /\ Len(buf[t]) <= HeaderSize + HandleSize + 2

\* C2: an invocation that finds the channel unset, or is given a null or an
\* empty payload (a non-null pointer with length 0 included), makes no write.
C2_NoWriteUnsetNullEmpty ==
    \A t \in Threads :
        (Invoked(t) /\ (fd_checked[t] < 0 \/ value[t].data = NULL
                        \/ value[t].size = 0))
        => Len(WritesOf(t)) = 0

\* C3: with a valid channel, a payload and a total of at most 512, the
\* invocation emits a frame whose length field is handle size + 2 + payload
\* length, which is the number of bytes after the 3-byte header, and it hands
\* exactly that frame to write.
C3_LengthField ==
    \A t \in Threads :
        (Invoked(t) /\ fd_checked[t] >= 0 /\ value[t].data # NULL
         /\ Total(value[t]) <= BufSize)
        => /\ pc[t] \in Framing
           /\ Len(buf[t]) = Total(value[t])
           /\ U16At(buf[t], 2) = HandleSize + 2 + value[t].size
           /\ U16At(buf[t], 2) = Len(buf[t]) - HeaderSize
           /\ WrittenRun(t) = buf[t]
           /\ pc[t] = "ret69" =>
                /\ Len(WritesOf(t)) = 1
                /\ WritesOf(t)[1].n = Len(buf[t])

\* a frame of exactly 512 bytes was framed and written whole
C3_Witness ==
    \E t \in Threads :
        /\ pc[t] = "ret69"
        /\ value[t].size = 503
        /\ Len(buf[t]) = BufSize
        /\ Len(WritesOf(t)) = 1
        /\ WritesOf(t)[1].ret = BufSize

\* C5: every run of bytes the callback hands to write decodes by the wire
\* table to the handle and the payload it was called with, and what a
\* channel holds decodes, by the length fields alone, to the events written
\* to it in order.
C5_RoundTrip ==
    /\ \A t \in Threads :
           pc[t] \in Framing
           => DecodeStream(WrittenRun(t)) = <<Event(conn_handle[t], value[t])>>
    /\ \A fd \in ValidFds : DecodeStream(chan[fd]) = Delivered(fd)

\* C6: every run of bytes the callback hands to write is: the tag 1 (never 2
\* or 3), the payload length low byte first, the handle bytes, the data
\* length low byte first, the payload, with no padding; handle 7 with payload
\* AA BB CC gives 01 09 00 07 00 00 00 03 00 AA BB CC.
C6_Layout ==
    \A t \in Threads :
        pc[t] \in Framing =>
          LET f == WrittenRun(t)
              v == value[t] IN
          /\ Len(f) = HeaderSize + HandleSize + 2 + v.size
          /\ f[1] = EVENT_NOTIFY
          /\ f[1] \notin {EVENT_CONNECT, EVENT_DISCONNECT}
          /\ U16At(f, 2) = HandleSize + 2 + v.size
          /\ HandleOf(SubSeq(f, HeaderSize + 1, HeaderSize + HandleSize))
               = conn_handle[t]
          /\ U16At(f, HeaderSize + HandleSize + 1) = v.size
          /\ SubSeq(f, HeaderSize + HandleSize + 3, Len(f))
               = DataBytes(v, v.size)
          /\ (conn_handle[t] = 7 /\ v = TinyValue)
             => f = <<1, 9, 0, 7, 0, 0, 0, 3, 0, 170, 187, 204>>

-----------------------------------------------------------------------------
\* Concurrent callbacks and the channel state

\* s is a concatenation of whole frames
WellFramed(s) ==
    \A k \in 1..Len(DecodeStream(s)) : DecodeStream(s)[k] # Undecodable

\* the descriptor the last adapter_set_pipe call passed (unset before any)
LatestFd == IF lastSet = <<>> THEN UnsetFd ELSE lastSet[1]

\* the step is thread t entering on_notify_cb
Enters(t) == pc[t] \in Returned /\ inv'[t] # inv[t]

\* the step is a write call
Writes == Len(wlog') > Len(wlog)

\* the thread that makes the write call of this step
Writer(t) == pc[t] = "at68" /\ wlog'[Len(wlog')].inv = inv[t]

\* C4: whatever the interleaving of callbacks and however much of a write the
\* channel accepts, what a channel holds is a concatenation of whole frames,
\* one for each write that put bytes on it.
C4_WholeFramesOnly ==
    \A fd \in ValidFds :
        /\ WellFramed(chan[fd])
        /\ Len(DecodeStream(chan[fd])) = Len(Delivered(fd))

\* what C7 asks of one step
C7_Step ==
    /\ lastSet = <<>> => g_pipe_fd < 0
    /\ \A t \in Threads :
         Enters(t) =>
           /\ fd_checked'[t] = LatestFd
           /\ LatestFd < 0 => (pc'[t] = "ret28" /\ wlog' = wlog /\ chan' = chan)
    /\ \A t \in Threads :
         (Writes /\ Writer(t) /\ ~raced[t]) =>
           LET w == wlog'[Len(wlog')] IN
           /\ w.fd = LatestFd
           /\ w.fd >= 0
           /\ \A fd \in ValidFds \ {w.fd} : chan'[fd] = chan[fd]

\* C7: the channel starts unset; an invocation that begins after the latest
\* adapter_set_pipe call (none has run since it entered) checks and writes to
\* the descriptor of that call only, touching no other channel; and when that
\* call passed a negative descriptor, or no call was made, it returns at once
\* and writes nothing.
C7_LatestPipe == [][C7_Step]_vars

\* a frame went to 3, the channel was redirected to 4, and a later invocation
\* that checked 4 put its whole frame on 4
C7_Witness ==
    /\ lastSet = <<4>>
    /\ Len(wlog) = 2
    /\ wlog[1].fd = 3 /\ wlog[1].ret = wlog[1].n
    /\ wlog[2].fd = 4 /\ wlog[2].ret = wlog[2].n
    /\ wlog[2].inv > wlog[1].inv
    /\ chan[3] # <<>> /\ chan[4] # <<>>
    /\ \E t \in Threads : inv[t] = wlog[2].inv /\ fd_checked[t] = 4

\* C8: adapter_set_pipe(h) called when h, a valid descriptor, is already
\* stored leaves the program in the state the first call left it in, so that
\* everything that follows is the same as after one call.
C8_SetPipeIdempotent ==
    [][\A h \in ValidFds :
          (g_pipe_fd = h /\ AdapterSetPipe(h)) => UNCHANGED progVars]_vars

\* adapter_set_pipe(3) was called with 3 already stored, and an invocation
\* that began after it has framed its event for descriptor 3
C8_Witness ==
    /\ sameSet
    /\ lastSet = <<3>>
    /\ g_pipe_fd = 3
    /\ \E t \in Threads :
         pc[t] = "at68" /\ ~raced[t] /\ fd_checked[t] = 3 /\ buf[t] # <<>>

\* C9: an invocation calls write at most once whatever write returns, and is
\* over once it has; no write result changes the stored descriptor (it is what
\* adapter_set_pipe last stored), and none ends the process (only a copy past
\* the end of buf does).
C9_FireAndForget ==
    /\ \A t \in Threads :
         /\ Len(WritesOf(t)) <= 1
         /\ pc[t] = "at68" => Len(WritesOf(t)) = 0
         /\ pc[t] = "ret69" => Len(WritesOf(t)) = 1
    /\ \A i \in 1..ncalls :
         Cardinality({k \in DOMAIN wlog : wlog[k].inv = i}) <= 1
    /\ g_pipe_fd = LatestFd
    /\ crashed => \E t \in Threads :
                     /\ pc[t] \in InFlight \cup {"ret69"}
                     /\ Overruns(conn_handle[t], value[t])

\* a write failed or fell short, and a later invocation made its own write,
\* which the channel took whole
C9_Witness ==
    /\ ~crashed
    /\ \E j, k \in DOMAIN wlog :
         /\ j < k
         /\ wlog[j].fd >= 0
         /\ wlog[j].ret < wlog[j].n
         /\ wlog[k].inv > wlog[j].inv
         /\ wlog[k].ret = wlog[k].n

\* C10: the descriptor an invocation passes to write is the one it checked at
\* entry, and is not negative, whatever adapter_set_pipe does in between.
C10_WriteUsesCheckedFd ==
    \A t \in Threads :
        \A k \in 1..Len(WritesOf(t)) :
            /\ WritesOf(t)[k].fd = fd_checked[t]
            /\ WritesOf(t)[k].fd >= 0

====
